---- MODULE Spec2Model ----
(***************************************************************************)
(* A model of lock_free_queue::LockFreeQueue (src/src/lib.rs): a           *)
(* Michael-Scott queue over crossbeam's epoch reclamation.                 *)
(*                                                                         *)
(* Every atomic access of push, pop and drop is one step of the calling    *)
(* thread.  Atomics are taken sequentially consistent.  A node is a        *)
(* number; NULL is the null Shared pointer.  The reclamation substrate     *)
(* (crossbeam::epoch) is modelled by its contract: a retired node may be   *)
(* destroyed once every thread that was pinned when it was retired has     *)
(* released that pin.                                                      *)
(*                                                                         *)
(* Spec is the queue used by NThreads threads and then dropped, with at     *)
(* most MaxNodes nodes ever allocated and a history of what was linked,    *)
(* unlinked and returned.  FairSpec and StallSpec are the queue used for    *)
(* ever: the allocator hands out again the numbers of nodes nothing refers *)
(* to, and only returns and successful CASes are recorded.                 *)
(*                                                                         *)
(* The counter `len` is an AtomicUsize.  It is held as the representative  *)
(* of its residue modulo 2^64 nearest to 0: a negative value -k stands for *)
(* the wrapped word 2^64 - k (fetch_sub on 0 gives -1, that is usize::MAX).*)
(***************************************************************************)
EXTENDS Integers, Sequences, FiniteSets, TLC

\* ------------------------------------------------------------------ bounds
NThreads == 2
MaxNodes == 4
MaxVal   == 2
\* the node numbers the allocator hands out again and again in the progress
\* specifications
StoreSize == 3

Threads == 1..NThreads
Nodes   == 1..MaxNodes
Values  == 1..MaxVal
NULL    == 0
UNINIT  == 0
Ptrs    == Nodes \cup {NULL}

\* Option<T> as pop returns it; NoResult: the thread's last call returned no Option.
None     == <<"none">>
Some(v)  == <<"some", v>>
NoResult == <<>>

VARIABLES
  head, tail, len,      \* LockFreeQueue's fields
  next, elem,           \* Node's fields, per node
  nodeState,            \* per node: "unalloc", "live", "retired", "destroyed"
  waitFor,              \* per retired node: the threads pinned at its retirement, still pinned
  pinned,               \* the threads holding an epoch guard
  pc,                   \* per thread: its position in push / pop / drop
  newNode,              \* push's new_node
  ltail, lnext, lhead,  \* the locals tail, tail_next_shared / head_next, head
  lelem,                \* pop's elem
  result,               \* what the thread's last call returned: None, Some(v) or NoResult
  dropper,              \* the thread running Drop (0: the queue is alive)
  dropped,              \* Drop has finished
  remaining,            \* the elements the queue held when Drop began
  \* history variables: they record what happened and steer nothing
  linkOrder,            \* nodes in the order their link CAS succeeded
  popOrder,             \* nodes in the order head was swung onto them
  returned,             \* values in the order pops returned them
  reads,                \* per node: how often its payload was read out
  retires,              \* per node: how often it was handed to defer_destroy
  derefFreed,           \* a thread dereferenced a destroyed node
  pushDone,             \* nodes whose push has returned
  doneAtStart,          \* per thread: pushDone when its current pop was invoked
  sawEmpty,             \* per thread: head.next was null at some instant of its current pop
  dirty,                \* per thread: another thread's CAS succeeded since its iteration began
  parity                \* flips each time a push or pop returns

queueVars == <<head, tail, len, next, elem>>
substrate == <<nodeState, waitFor, pinned>>
locals    == <<pc, newNode, ltail, lnext, lhead, lelem, result>>
dropVars  == <<dropper, dropped, remaining>>
history   == <<linkOrder, popOrder, returned, reads, retires, derefFreed,
               pushDone, doneAtStart, sawEmpty, dirty, parity>>
vars      == <<queueVars, substrate, locals, dropVars, history>>

\* ------------------------------------------------------------- construction
\* LockFreeQueue::new: one dummy node, head and tail both on it, len 0.
\* Init with the counter starting at 1 instead of AtomicUsize::new(0).
Init_LenOne ==
  /\ head = 1 /\ tail = 1 /\ len = 1
  /\ next = [n \in Nodes |-> NULL]
  /\ elem = [n \in Nodes |-> UNINIT]
  /\ nodeState = [n \in Nodes |-> IF n = 1 THEN "live" ELSE "unalloc"]
  /\ waitFor = [n \in Nodes |-> {}]
  /\ pinned = {}
  /\ pc = [t \in Threads |-> "idle"]
  /\ newNode = [t \in Threads |-> NULL]
  /\ ltail = [t \in Threads |-> NULL]
  /\ lnext = [t \in Threads |-> NULL]
  /\ lhead = [t \in Threads |-> NULL]
  /\ lelem = [t \in Threads |-> UNINIT]
  /\ result = [t \in Threads |-> NoResult]
  /\ dropper = 0 /\ dropped = FALSE /\ remaining = 0
  /\ linkOrder = <<>> /\ popOrder = <<>> /\ returned = <<>>
  /\ reads = [n \in Nodes |-> 0]
  /\ retires = [n \in Nodes |-> 0]
  /\ derefFreed = FALSE
  /\ pushDone = {}
  /\ doneAtStart = [t \in Threads |-> {}]
  /\ sawEmpty = [t \in Threads |-> FALSE]
  /\ dirty = [t \in Threads |-> FALSE]
  /\ parity = 0

Init ==
  /\ head = 1 /\ tail = 1 /\ len = 0
  /\ next = [n \in Nodes |-> NULL]
  /\ elem = [n \in Nodes |-> UNINIT]
  /\ nodeState = [n \in Nodes |-> IF n = 1 THEN "live" ELSE "unalloc"]
  /\ waitFor = [n \in Nodes |-> {}]
  /\ pinned = {}
  /\ pc = [t \in Threads |-> "idle"]
  /\ newNode = [t \in Threads |-> NULL]
  /\ ltail = [t \in Threads |-> NULL]
  /\ lnext = [t \in Threads |-> NULL]
  /\ lhead = [t \in Threads |-> NULL]
  /\ lelem = [t \in Threads |-> UNINIT]
  /\ result = [t \in Threads |-> NoResult]
  /\ dropper = 0 /\ dropped = FALSE /\ remaining = 0
  /\ linkOrder = <<>> /\ popOrder = <<>> /\ returned = <<>>
  /\ reads = [n \in Nodes |-> 0]
  /\ retires = [n \in Nodes |-> 0]
  /\ derefFreed = FALSE
  /\ pushDone = {}
  /\ doneAtStart = [t \in Threads |-> {}]
  /\ sawEmpty = [t \in Threads |-> FALSE]
  /\ dirty = [t \in Threads |-> FALSE]
  /\ parity = 0

\* ------------------------------------------------------------------ helpers
InPush(t) == pc[t] \in {"push_load_tail", "push_load_next", "push_check",
                        "push_link", "push_swing", "push_help", "push_inc"}
InPop(t)  == pc[t] \in {"pop_load_head", "pop_load_tail", "pop_load_next",
                        "pop_check", "pop_help", "pop_cas", "pop_retire",
                        "pop_read", "pop_dec"}
InDrop(t) == pc[t] \in {"drop_load", "drop_retire"}

\* The nodes reached from n by next pointers, n included (at most k steps).
RECURSIVE ChainFrom(_, _)
ChainFrom(n, k) ==
  IF n = NULL \/ k = 0 THEN <<>> ELSE <<n>> \o ChainFrom(next[n], k - 1)

Chain == ChainFrom(head, MaxNodes + 1)

Range(s) == {s[i] : i \in 1..Len(s)}

\* epoch::pin() and the guard's release.  Releasing the guard takes the
\* thread off every retired node's waiting list.
Pin(t)   == pinned' = pinned \cup {t}
Unpin(t) == /\ pinned' = pinned \ {t}
            /\ waitFor' = [n \in Nodes |-> waitFor[n] \ {t}]
\* A guard dropped and a new one taken at once (between two pops of Drop).
Repin(t) == /\ pinned' = pinned
            /\ waitFor' = [n \in Nodes |-> waitFor[n] \ {t}]

\* A dereference of node n: dereferencing a destroyed node is recorded, and
\* what is read from freed memory is any pointer / any payload.
Deref(n) == derefFreed' = (derefFreed \/ nodeState[n] = "destroyed")
ReadNext(n) == IF nodeState[n] = "destroyed" THEN Ptrs ELSE {next[n]}
ReadElem(n) == IF nodeState[n] = "destroyed" THEN Values \cup {UNINIT} ELSE {elem[n]}

\* guard.defer_destroy(n) by a pinned thread.
Retire(n) ==
  /\ retires' = [retires EXCEPT ![n] = @ + 1]
  /\ nodeState' = [nodeState EXCEPT ![n] = IF @ = "destroyed" THEN @ ELSE "retired"]

ClearLocals(t) ==
  /\ newNode' = [newNode EXCEPT ![t] = NULL]
  /\ ltail' = [ltail EXCEPT ![t] = NULL]
  /\ lnext' = [lnext EXCEPT ![t] = NULL]
  /\ lhead' = [lhead EXCEPT ![t] = NULL]
  /\ lelem' = [lelem EXCEPT ![t] = UNINIT]

\* The loop's next iteration: the `let` bindings of the last one are gone.
Retry(t, start) ==
  /\ pc' = [pc EXCEPT ![t] = start]
  /\ ltail' = [ltail EXCEPT ![t] = NULL]
  /\ lnext' = [lnext EXCEPT ![t] = NULL]
  /\ lhead' = [lhead EXCEPT ![t] = NULL]

\* ------------------------------------------------------------------- push
\* Owned::new(Node::new(elem)): a node that was never allocated before.
FreshNodes == {n \in Nodes : nodeState[n] = "unalloc"}

Allocate(t, n, v) ==
  /\ elem' = [elem EXCEPT ![n] = v]
  /\ next' = [next EXCEPT ![n] = NULL]
  /\ nodeState' = [nodeState EXCEPT ![n] = "live"]
  /\ waitFor' = [waitFor EXCEPT ![n] = {}]
  /\ reads' = [reads EXCEPT ![n] = 0]
  /\ retires' = [retires EXCEPT ![n] = 0]
  /\ pushDone' = pushDone \ {n}
  /\ newNode' = [newNode EXCEPT ![t] = n]

StartPush(t, v) ==
  /\ pc[t] = "idle" /\ dropper = 0
  /\ FreshNodes # {}
  /\ LET n == CHOOSE m \in FreshNodes : \A k \in FreshNodes : m <= k
     IN Allocate(t, n, v)
  /\ Pin(t)
  /\ pc' = [pc EXCEPT ![t] = "push_load_tail"]
  /\ result' = [result EXCEPT ![t] = NoResult]
  /\ UNCHANGED <<head, tail, len, ltail, lnext, lhead, lelem, dropVars, derefFreed>>

\* The same call where the allocator may hand out again the memory of a node
\* nothing refers to any more: a number no pointer of the queue, of a node
\* reachable from one, or of a thread's locals holds names a new node.
Roots == {head, tail} \cup {newNode[t] : t \in Threads} \cup {ltail[t] : t \in Threads}
           \cup {lnext[t] : t \in Threads} \cup {lhead[t] : t \in Threads}
Referenced == UNION {Range(ChainFrom(r, MaxNodes + 1)) : r \in Roots}
FreeNodes == (1..StoreSize) \ Referenced

StartPushReuse(t, v) ==
  /\ pc[t] = "idle" /\ dropper = 0
  /\ FreeNodes # {}
  /\ LET n == CHOOSE m \in FreeNodes : \A k \in FreeNodes : m <= k
     IN Allocate(t, n, v)
  /\ Pin(t)
  /\ pc' = [pc EXCEPT ![t] = "push_load_tail"]
  /\ result' = [result EXCEPT ![t] = NoResult]
  /\ UNCHANGED <<head, tail, len, ltail, lnext, lhead, lelem, dropVars, derefFreed>>

PushLoadTail(t) ==
  /\ pc[t] = "push_load_tail"
  /\ ltail' = [ltail EXCEPT ![t] = tail]
  /\ pc' = [pc EXCEPT ![t] = "push_load_next"]
  /\ UNCHANGED <<queueVars, substrate, newNode, lnext, lhead, lelem, result, dropVars,
                 reads, retires, derefFreed, pushDone>>

PushLoadNext(t) ==
  /\ pc[t] = "push_load_next"
  /\ Deref(ltail[t])
  /\ \E p \in ReadNext(ltail[t]) : lnext' = [lnext EXCEPT ![t] = p]
  /\ pc' = [pc EXCEPT ![t] = "push_check"]
  /\ UNCHANGED <<queueVars, substrate, newNode, ltail, lhead, lelem, result, dropVars,
                 reads, retires, pushDone>>


\* PushCheck with the comparison of the two loads of tail inverted.
PushCheck_Inverted(t) ==
  /\ pc[t] = "push_check"
  /\ IF ltail[t] # tail
     THEN /\ pc' = [pc EXCEPT ![t] =
                 IF lnext[t] = NULL THEN "push_link" ELSE "push_help"]
          /\ UNCHANGED <<ltail, lnext, lhead>>
     ELSE Retry(t, "push_load_tail")
  /\ UNCHANGED <<queueVars, substrate, newNode, lelem, result,
                 dropVars, reads, retires, derefFreed, pushDone>>

PushCheck(t) ==
  /\ pc[t] = "push_check"
  /\ IF ltail[t] = tail
     THEN /\ pc' = [pc EXCEPT ![t] =
                 IF lnext[t] = NULL THEN "push_link" ELSE "push_help"]
          /\ UNCHANGED <<ltail, lnext, lhead>>
     ELSE Retry(t, "push_load_tail")
  /\ UNCHANGED <<queueVars, substrate, newNode, lelem, result,
                 dropVars, reads, retires, derefFreed, pushDone>>


\* PushLink with a plain store in place of the compare-and-swap on tail.next.
PushLink_Store(t) ==
  /\ pc[t] = "push_link"
  /\ Deref(ltail[t])
  /\ next' = [next EXCEPT ![ltail[t]] = newNode[t]]
  /\ pc' = [pc EXCEPT ![t] = "push_swing"]
  /\ UNCHANGED <<head, tail, len, elem, substrate, newNode, ltail, lnext, lhead, lelem,
                 result, dropVars, reads, retires, pushDone>>

\* PushLink taking a failed compare-and-swap for a success.
PushLink_IgnoreFailure(t) ==
  /\ pc[t] = "push_link"
  /\ Deref(ltail[t])
  /\ next' = IF next[ltail[t]] = NULL
             THEN [next EXCEPT ![ltail[t]] = newNode[t]] ELSE next
  /\ pc' = [pc EXCEPT ![t] = "push_swing"]
  /\ UNCHANGED <<head, tail, len, elem, substrate, newNode, ltail, lnext, lhead, lelem,
                 result, dropVars, reads, retires, pushDone>>

\* PushLink handing the CAS the node tail refers to instead of new_node.
PushLink_LinksTail(t) ==
  /\ pc[t] = "push_link"
  /\ Deref(ltail[t])
  /\ IF next[ltail[t]] = NULL
     THEN /\ next' = [next EXCEPT ![ltail[t]] = ltail[t]]
          /\ pc' = [pc EXCEPT ![t] = "push_swing"]
          /\ UNCHANGED <<ltail, lnext, lhead>>
     ELSE /\ next' = next
          /\ Retry(t, "push_load_tail")
  /\ UNCHANGED <<head, tail, len, elem, substrate, newNode, lelem,
                 result, dropVars, reads, retires, pushDone>>

PushLink(t) ==
  /\ pc[t] = "push_link"
  /\ Deref(ltail[t])
  /\ IF next[ltail[t]] = NULL
     THEN /\ next' = [next EXCEPT ![ltail[t]] = newNode[t]]
          /\ pc' = [pc EXCEPT ![t] = "push_swing"]
          /\ UNCHANGED <<ltail, lnext, lhead>>
     ELSE /\ next' = next
          /\ Retry(t, "push_load_tail")
  /\ UNCHANGED <<head, tail, len, elem, substrate, newNode, lelem,
                 result, dropVars, reads, retires, pushDone>>

\* PushSwing starting the loop over when its CAS on tail fails, the node
\* already linked.
PushSwing_RetryOnFailure(t) ==
  /\ pc[t] = "push_swing"
  /\ tail' = IF tail = ltail[t] THEN newNode[t] ELSE tail
  /\ pc' = [pc EXCEPT ![t] = IF tail = ltail[t] THEN "push_inc" ELSE "push_load_tail"]
  /\ UNCHANGED <<head, len, next, elem, substrate, newNode, ltail, lnext, lhead, lelem,
                 result, dropVars, reads, retires, derefFreed, pushDone>>

\* PushSwing with a plain store of new_node in place of the CAS on tail.
PushSwing_Store(t) ==
  /\ pc[t] = "push_swing"
  /\ tail' = newNode[t]
  /\ pc' = [pc EXCEPT ![t] = "push_inc"]
  /\ UNCHANGED <<head, len, next, elem, substrate, newNode, ltail, lnext, lhead, lelem,
                 result, dropVars, reads, retires, derefFreed, pushDone>>

PushSwing(t) ==
  /\ pc[t] = "push_swing"
  /\ tail' = IF tail = ltail[t] THEN newNode[t] ELSE tail
  /\ pc' = [pc EXCEPT ![t] = "push_inc"]
  /\ UNCHANGED <<head, len, next, elem, substrate, newNode, ltail, lnext, lhead, lelem,
                 result, dropVars, reads, retires, derefFreed, pushDone>>

\* PushInc without the fetch_add on len.
PushInc_NoIncrement(t) ==
  /\ pc[t] = "push_inc"
  /\ len' = len
  /\ pushDone' = pushDone \cup {newNode[t]}
  /\ Unpin(t)
  /\ ClearLocals(t)
  /\ pc' = [pc EXCEPT ![t] = "idle"]
  /\ UNCHANGED <<head, tail, next, elem, nodeState, result, dropVars,
                 reads, retires, derefFreed>>

PushInc(t) ==
  /\ pc[t] = "push_inc"
  /\ len' = len + 1
  /\ pushDone' = pushDone \cup {newNode[t]}
  /\ Unpin(t)
  /\ ClearLocals(t)
  /\ pc' = [pc EXCEPT ![t] = "idle"]
  /\ UNCHANGED <<head, tail, next, elem, nodeState, result, dropVars,
                 reads, retires, derefFreed>>


\* PushHelp counting the node it swung tail onto as an element of its own.
PushHelp_Counts(t) ==
  /\ pc[t] = "push_help"
  /\ tail' = IF tail = ltail[t] THEN lnext[t] ELSE tail
  /\ len' = IF tail = ltail[t] THEN len + 1 ELSE len
  /\ Retry(t, "push_load_tail")
  /\ UNCHANGED <<head, next, elem, substrate, newNode, lelem,
                 result, dropVars, reads, retires, derefFreed, pushDone>>


\* PushHelp without the helping CAS: a push that finds tail lagging only retries.
PushHelp_NoCas(t) ==
  /\ pc[t] = "push_help"
  /\ tail' = tail
  /\ Retry(t, "push_load_tail")
  /\ UNCHANGED <<head, len, next, elem, substrate, newNode, lelem,
                 result, dropVars, reads, retires, derefFreed, pushDone>>

PushHelp(t) ==
  /\ pc[t] = "push_help"
  /\ tail' = IF tail = ltail[t] THEN lnext[t] ELSE tail
  /\ Retry(t, "push_load_tail")
  /\ UNCHANGED <<head, len, next, elem, substrate, newNode, lelem,
                 result, dropVars, reads, retires, derefFreed, pushDone>>

\* -------------------------------------------------------------------- pop
StartPop(t) ==
  /\ pc[t] = "idle" /\ dropper = 0
  /\ Pin(t)
  /\ pc' = [pc EXCEPT ![t] = "pop_load_head"]
  /\ result' = [result EXCEPT ![t] = NoResult]
  /\ UNCHANGED <<queueVars, nodeState, waitFor, newNode, ltail, lnext, lhead, lelem,
                 dropVars, reads, retires, derefFreed, pushDone>>

PopLoadHead(t) ==
  /\ pc[t] = "pop_load_head"
  /\ lhead' = [lhead EXCEPT ![t] = head]
  /\ pc' = [pc EXCEPT ![t] = "pop_load_tail"]
  /\ UNCHANGED <<queueVars, substrate, newNode, ltail, lnext, lelem, result, dropVars,
                 reads, retires, derefFreed, pushDone>>

PopLoadTail(t) ==
  /\ pc[t] = "pop_load_tail"
  /\ ltail' = [ltail EXCEPT ![t] = tail]
  /\ pc' = [pc EXCEPT ![t] = "pop_load_next"]
  /\ UNCHANGED <<queueVars, substrate, newNode, lnext, lhead, lelem, result, dropVars,
                 reads, retires, derefFreed, pushDone>>

PopLoadNext(t) ==
  /\ pc[t] = "pop_load_next"
  /\ Deref(lhead[t])
  /\ \E p \in ReadNext(lhead[t]) : lnext' = [lnext EXCEPT ![t] = p]
  /\ pc' = [pc EXCEPT ![t] = "pop_check"]
  /\ UNCHANGED <<queueVars, substrate, newNode, ltail, lhead, lelem, result, dropVars,
                 reads, retires, pushDone>>

\* What a pop does on returning r: in a thread's own call the guard is
\* released; inside Drop the loop `while self.pop().is_some() {}` goes on to
\* the next pop, or, on None, to Drop's own pin and load of head.
PopReturn(t, r) ==
  /\ result' = [result EXCEPT ![t] = r]
  /\ ClearLocals(t)
  /\ IF dropper = t
     THEN /\ Repin(t)
          /\ pc' = [pc EXCEPT ![t] = IF r = None THEN "drop_load" ELSE "pop_load_head"]
     ELSE /\ Unpin(t)
          /\ pc' = [pc EXCEPT ![t] = "idle"]


\* PopCheck reporting empty as soon as head == tail, without looking at head.next.
PopCheck_NoNullTest(t) ==
  /\ pc[t] = "pop_check"
  /\ IF lhead[t] = head /\ lhead[t] = ltail[t]
     THEN PopReturn(t, None)
     ELSE /\ IF lhead[t] # head
             THEN Retry(t, "pop_load_head")
             ELSE /\ pc' = [pc EXCEPT ![t] = "pop_cas"]
                  /\ UNCHANGED <<ltail, lnext, lhead>>
          /\ UNCHANGED <<pinned, waitFor, newNode, lelem, result>>
  /\ UNCHANGED <<queueVars, nodeState, dropVars, reads, retires, derefFreed, pushDone>>

\* PopCheck unlinking a node that tail has not reached yet: with head == tail
\* and head.next not null it goes on to the CAS on head instead of helping tail.
PopCheck_NoHelp(t) ==
  /\ pc[t] = "pop_check"
  /\ IF lhead[t] = head /\ lhead[t] = ltail[t] /\ lnext[t] = NULL
     THEN PopReturn(t, None)
     ELSE /\ IF lhead[t] # head
             THEN Retry(t, "pop_load_head")
             ELSE /\ pc' = [pc EXCEPT ![t] = "pop_cas"]
                  /\ UNCHANGED <<ltail, lnext, lhead>>
          /\ UNCHANGED <<pinned, waitFor, newNode, lelem, result>>
  /\ UNCHANGED <<queueVars, nodeState, dropVars, reads, retires, derefFreed, pushDone>>

\* The re-read of head and the branches on the locals (lines 117-121, 129).
PopCheck(t) ==
  /\ pc[t] = "pop_check"
  /\ IF lhead[t] = head /\ lhead[t] = ltail[t] /\ lnext[t] = NULL
     THEN PopReturn(t, None)
     ELSE /\ IF lhead[t] # head
             THEN Retry(t, "pop_load_head")
             ELSE /\ pc' = [pc EXCEPT ![t] =
                         IF lhead[t] = ltail[t] THEN "pop_help" ELSE "pop_cas"]
                  /\ UNCHANGED <<ltail, lnext, lhead>>
          /\ UNCHANGED <<pinned, waitFor, newNode, lelem, result>>
  /\ UNCHANGED <<queueVars, nodeState, dropVars, reads, retires, derefFreed, pushDone>>

PopHelp(t) ==
  /\ pc[t] = "pop_help"
  /\ tail' = IF tail = ltail[t] THEN lnext[t] ELSE tail
  /\ Retry(t, "pop_load_head")
  /\ UNCHANGED <<head, len, next, elem, substrate, newNode, lelem,
                 result, dropVars, reads, retires, derefFreed, pushDone>>


\* PopCas with a plain store in place of the compare-and-swap on head.
PopCas_Store(t) ==
  /\ pc[t] = "pop_cas"
  /\ head' = lnext[t]
  /\ pc' = [pc EXCEPT ![t] = "pop_retire"]
  /\ UNCHANGED <<tail, len, next, elem, substrate, newNode, ltail, lnext, lhead, lelem,
                 result, dropVars, reads, retires, derefFreed, pushDone>>

\* PopCas taking a failed compare-and-swap on head for a success.
PopCas_IgnoreFailure(t) ==
  /\ pc[t] = "pop_cas"
  /\ head' = IF head = lhead[t] THEN lnext[t] ELSE head
  /\ pc' = [pc EXCEPT ![t] = "pop_retire"]
  /\ UNCHANGED <<tail, len, next, elem, substrate, newNode, ltail, lnext, lhead, lelem,
                 result, dropVars, reads, retires, derefFreed, pushDone>>

PopCas(t) ==
  /\ pc[t] = "pop_cas"
  /\ IF head = lhead[t]
     THEN /\ head' = lnext[t]
          /\ pc' = [pc EXCEPT ![t] = "pop_retire"]
          /\ UNCHANGED <<ltail, lnext, lhead>>
     ELSE /\ head' = head
          /\ Retry(t, "pop_load_head")
  /\ UNCHANGED <<tail, len, next, elem, substrate, newNode, lelem,
                 result, dropVars, reads, retires, derefFreed, pushDone>>


\* PopRetire destroying the old sentinel at once instead of deferring it.
PopRetire_DestroyNow(t) ==
  /\ pc[t] = "pop_retire"
  /\ retires' = [retires EXCEPT ![lhead[t]] = @ + 1]
  /\ nodeState' = [nodeState EXCEPT ![lhead[t]] = "destroyed"]
  /\ waitFor' = waitFor
  /\ pc' = [pc EXCEPT ![t] = "pop_read"]
  /\ UNCHANGED <<queueVars, pinned, newNode, ltail, lnext, lhead, lelem, result,
                 dropVars, reads, derefFreed, pushDone>>

\* PopRetire handing the new sentinel (head_next) to defer_destroy.
PopRetire_NewHead(t) ==
  /\ pc[t] = "pop_retire"
  /\ Retire(lnext[t])
  /\ waitFor' = [waitFor EXCEPT ![lnext[t]] = pinned]
  /\ pc' = [pc EXCEPT ![t] = "pop_read"]
  /\ UNCHANGED <<queueVars, pinned, newNode, ltail, lnext, lhead, lelem, result,
                 dropVars, reads, derefFreed, pushDone>>

\* guard.defer_destroy(head): the substrate notes who is pinned now.
PopRetire(t) ==
  /\ pc[t] = "pop_retire"
  /\ Retire(lhead[t])
  /\ waitFor' = [waitFor EXCEPT ![lhead[t]] = pinned]
  /\ pc' = [pc EXCEPT ![t] = "pop_read"]
  /\ UNCHANGED <<queueVars, pinned, newNode, ltail, lnext, lhead, lelem, result,
                 dropVars, reads, derefFreed, pushDone>>

\* PopRead reading the payload of the old sentinel instead of head_next's.
PopRead_OldSentinel(t) ==
  /\ pc[t] = "pop_read"
  /\ Deref(lhead[t])
  /\ \E e \in ReadElem(lhead[t]) : lelem' = [lelem EXCEPT ![t] = e]
  /\ reads' = [reads EXCEPT ![lhead[t]] = @ + 1]
  /\ pc' = [pc EXCEPT ![t] = "pop_dec"]
  /\ UNCHANGED <<queueVars, substrate, newNode, ltail, lnext, lhead, result, dropVars,
                 retires, pushDone>>

\* (*head_next.as_raw()).elem.assume_init_read()
PopRead(t) ==
  /\ pc[t] = "pop_read"
  /\ Deref(lnext[t])
  /\ \E e \in ReadElem(lnext[t]) : lelem' = [lelem EXCEPT ![t] = e]
  /\ reads' = [reads EXCEPT ![lnext[t]] = @ + 1]
  /\ pc' = [pc EXCEPT ![t] = "pop_dec"]
  /\ UNCHANGED <<queueVars, substrate, newNode, ltail, lnext, lhead, result, dropVars,
                 retires, pushDone>>


\* PopDec without the fetch_sub on len.
PopDec_NoDecrement(t) ==
  /\ pc[t] = "pop_dec"
  /\ len' = len
  /\ PopReturn(t, Some(lelem[t]))
  /\ UNCHANGED <<head, tail, next, elem, nodeState, dropVars, reads, retires,
                 derefFreed, pushDone>>

PopDec(t) ==
  /\ pc[t] = "pop_dec"
  /\ len' = len - 1
  /\ PopReturn(t, Some(lelem[t]))
  /\ UNCHANGED <<head, tail, next, elem, nodeState, dropVars, reads, retires,
                 derefFreed, pushDone>>

\* ------------------------------------------------------------------- drop
\* Drop takes &mut self: it runs when the last handle goes, so no call is in
\* flight and none starts afterwards.
StartDrop(t) ==
  /\ dropper = 0
  /\ \A u \in Threads : pc[u] = "idle"
  /\ dropper' = t
  /\ remaining' = Len(Chain) - 1
  /\ Pin(t)
  /\ pc' = [pc EXCEPT ![t] = "pop_load_head"]
  /\ result' = [result EXCEPT ![t] = NoResult]
  /\ UNCHANGED <<queueVars, nodeState, waitFor, newNode, ltail, lnext, lhead, lelem,
                 dropped, reads, retires, derefFreed, pushDone>>

DropLoad(t) ==
  /\ pc[t] = "drop_load"
  /\ lhead' = [lhead EXCEPT ![t] = head]
  /\ pc' = [pc EXCEPT ![t] = "drop_retire"]
  /\ UNCHANGED <<queueVars, substrate, newNode, ltail, lnext, lelem, result, dropVars,
                 reads, retires, derefFreed, pushDone>>


\* DropRetire without the defer_destroy of the last sentinel.
DropRetire_Forget(t) ==
  /\ pc[t] = "drop_retire"
  /\ retires' = retires /\ nodeState' = nodeState
  /\ waitFor' = [n \in Nodes |-> waitFor[n] \ {t}]
  /\ pinned' = pinned \ {t}
  /\ ClearLocals(t)
  /\ pc' = [pc EXCEPT ![t] = "idle"]
  /\ dropped' = TRUE
  /\ UNCHANGED <<queueVars, result, dropper, remaining, reads, derefFreed, pushDone>>

DropRetire(t) ==
  /\ pc[t] = "drop_retire"
  /\ Retire(lhead[t])
  /\ waitFor' = [n \in Nodes |-> (IF n = lhead[t] THEN pinned ELSE waitFor[n]) \ {t}]
  /\ pinned' = pinned \ {t}
  /\ ClearLocals(t)
  /\ pc' = [pc EXCEPT ![t] = "idle"]
  /\ dropped' = TRUE
  /\ UNCHANGED <<queueVars, result, dropper, remaining, reads, derefFreed, pushDone>>

\* ------------------------------------------------------------- reclamation
\* The substrate destroys a retired node once no thread that was pinned at its
\* retirement still holds that pin.
Reclaim(n) ==
  /\ nodeState[n] = "retired"
  /\ waitFor[n] = {}
  /\ nodeState' = [nodeState EXCEPT ![n] = "destroyed"]
  /\ UNCHANGED <<queueVars, waitFor, pinned, locals, dropVars, reads, retires,
                 derefFreed, pushDone>>

\* ---------------------------------------------------------------- history
\* The step of thread t returns from push or pop.
Returns(t) ==
  \/ (InPush(t) \/ InPop(t)) /\ pc'[t] \in {"idle", "drop_load"}
  \/ pc[t] = "pop_dec" /\ pc'[t] = "pop_load_head"

\* What the step of thread t means for the calls in flight: which pushes had
\* returned when a pop was invoked, and whether the queue was seen empty
\* (head.next null) at some instant of a pop.
Observe(t) ==
  /\ doneAtStart' = [u \in Threads |->
       IF u # t THEN doneAtStart[u]
       ELSE IF pc'[t] = "pop_load_head" /\ (pc[t] = "idle" \/ Returns(t)) THEN pushDone
       ELSE IF pc[t] = "idle" THEN {}
       ELSE doneAtStart[t]]
  /\ sawEmpty' = [u \in Threads |->
       IF u = t /\ pc'[t] = "pop_load_head" /\ (pc[t] = "idle" \/ Returns(t))
       THEN next'[head'] = NULL
       ELSE IF u = t /\ pc[t] = "idle" THEN FALSE
       ELSE IF InPop(u) /\ pc'[u] # "idle"
            THEN sawEmpty[u] \/ next'[head'] = NULL
            ELSE sawEmpty[u]]

\* What the step of thread t means for progress: a return flips parity, and a
\* successful CAS marks every other thread's current iteration as disturbed.
Progress(t) ==
  /\ parity' = IF Returns(t) THEN 1 - parity ELSE parity
  /\ dirty' = [u \in Threads |->
       IF pc'[u] = "idle" THEN FALSE
       ELSE IF u = t
            THEN (IF pc[t] \in {"idle", "push_load_tail", "pop_load_head"}
                  THEN FALSE ELSE dirty[t])
            ELSE dirty[u] \/ tail' # tail \/ head' # head
                          \/ (pc[t] = "push_link" /\ next' # next)]

\* The three logs of what the step of thread t linked, unlinked and returned.
Logs(t) ==
  /\ linkOrder' = IF pc[t] = "push_link" /\ next' # next
                  THEN Append(linkOrder, newNode[t]) ELSE linkOrder
  /\ popOrder' = IF head' # head THEN Append(popOrder, head') ELSE popOrder
  /\ returned' = IF pc[t] = "pop_dec"
                 THEN Append(returned, result'[t][2]) ELSE returned

\* The history of the safety specification: the logs and the per-call record.
Record(t) == Logs(t) /\ Observe(t) /\ UNCHANGED <<parity, dirty>>
NoRecord  == UNCHANGED <<linkOrder, popOrder, returned, doneAtStart, sawEmpty,
                         parity, dirty>>

\* ------------------------------------------------------------ specification
Next ==
  \/ \E t \in Threads, v \in Values : StartPush(t, v) /\ Record(t)
  \/ \E t \in Threads : PushLoadTail(t) /\ Record(t)
  \/ \E t \in Threads : PushLoadNext(t) /\ Record(t)
  \/ \E t \in Threads : PushCheck(t) /\ Record(t)
  \/ \E t \in Threads : PushLink(t) /\ Record(t)
  \/ \E t \in Threads : PushSwing(t) /\ Record(t)
  \/ \E t \in Threads : PushInc(t) /\ Record(t)
  \/ \E t \in Threads : PushHelp(t) /\ Record(t)
  \/ \E t \in Threads : StartPop(t) /\ Record(t)
  \/ \E t \in Threads : PopLoadHead(t) /\ Record(t)
  \/ \E t \in Threads : PopLoadTail(t) /\ Record(t)
  \/ \E t \in Threads : PopLoadNext(t) /\ Record(t)
  \/ \E t \in Threads : PopCheck(t) /\ Record(t)
  \/ \E t \in Threads : PopHelp(t) /\ Record(t)
  \/ \E t \in Threads : PopCas(t) /\ Record(t)
  \/ \E t \in Threads : PopRetire(t) /\ Record(t)
  \/ \E t \in Threads : PopRead(t) /\ Record(t)
  \/ \E t \in Threads : PopDec(t) /\ Record(t)
  \/ \E t \in Threads : StartDrop(t) /\ Record(t)
  \/ \E t \in Threads : DropLoad(t) /\ Record(t)
  \/ \E t \in Threads : DropRetire(t) /\ Record(t)
  \/ \E n \in Nodes : Reclaim(n) /\ NoRecord

Spec == Init /\ [][Next]_vars

\* --------------------------------------------------- progress specifications
\* Threads that call push and pop for ever, over a finite store of node
\* numbers.  Only progress is recorded.
Track(t) == Progress(t) /\ UNCHANGED <<linkOrder, popOrder, returned, doneAtStart, sawEmpty>>

\* A step of thread t inside a call it has begun.
Continue(t) ==
  \/ PushLoadTail(t) /\ Track(t)
  \/ PushLoadNext(t) /\ Track(t)
  \/ PushCheck(t) /\ Track(t)
  \/ PushLink(t) /\ Track(t)
  \/ PushSwing(t) /\ Track(t)
  \/ PushInc(t) /\ Track(t)
  \/ PushHelp(t) /\ Track(t)
  \/ PopLoadHead(t) /\ Track(t)
  \/ PopLoadTail(t) /\ Track(t)
  \/ PopLoadNext(t) /\ Track(t)
  \/ PopCheck(t) /\ Track(t)
  \/ PopHelp(t) /\ Track(t)
  \/ PopCas(t) /\ Track(t)
  \/ PopRetire(t) /\ Track(t)
  \/ PopRead(t) /\ Track(t)
  \/ PopDec(t) /\ Track(t)

NextR ==
  \/ \E t \in Threads : StartPushReuse(t, 1) /\ Track(t)
  \/ \E t \in Threads : StartPop(t) /\ Track(t)
  \/ \E t \in Threads : Continue(t)
  \/ \E n \in Nodes : Reclaim(n) /\ NoRecord

\* Fair scheduling: every thread inside a call keeps taking steps.
FairSpec == Init /\ [][NextR]_vars /\ \A t \in Threads : WF_vars(Continue(t))

\* Thread 1 keeps taking steps; any other thread may stop anywhere, for ever.
StallSpec == Init /\ [][NextR]_vars /\ WF_vars(Continue(1))

\* ---------------------------------------------------------------- claims
IsPrefix(s, t) == Len(s) <= Len(t) /\ \A i \in 1..Len(s) : s[i] = t[i]
Distinct(s) == \A i, j \in 1..Len(s) : s[i] = s[j] => i = j
AllIdle == \A t \in Threads : pc[t] = "idle"
Allocated == {n \in Nodes : nodeState[n] # "unalloc"}
\* a pop that has won its CAS on head and not yet returned
Unlinking(t) == pc[t] \in {"pop_retire", "pop_read", "pop_dec"}

\* C1: FIFO.  The nodes in the order head was swung onto them are a prefix of
\* the nodes in the order they were linked, each linked once; and the value a
\* pop is about to return is the value pushed with the node its CAS unlinked.
C1_FifoOrder ==
  /\ IsPrefix(popOrder, linkOrder)
  /\ Distinct(linkOrder)
  /\ \A t \in Threads : Unlinking(t) => lnext[t] \in Range(popOrder)
  /\ \A t \in Threads : pc[t] = "pop_dec" => lelem[t] = elem[lnext[t]]
  /\ \A t \in Threads : pc[t] = "idle" /\ result[t] \notin {None, NoResult}
       => \E i \in 1..Len(popOrder) : result[t] = Some(elem[popOrder[i]])

\* Three values, linked in the order 1, 1, 2, have all been popped and have
\* come back in that order.
C1_Witness ==
  /\ AllIdle /\ dropper = 0
  /\ Len(popOrder) = 3 /\ popOrder = linkOrder
  /\ returned = <<1, 1, 2>>
  /\ <<elem[linkOrder[1]], elem[linkOrder[2]], elem[linkOrder[3]]>> = <<1, 1, 2>>

\* C2: no loss, no duplication.  No node is unlinked twice and no payload is
\* read twice; and with no call in flight and the queue drained, the values
\* pops returned are, as a multiset, the values pushed.
PushedCount(v) == Cardinality({n \in Allocated \ {1} : elem[n] = v})
ReturnedCount(v) == Cardinality({i \in 1..Len(returned) : returned[i] = v})

C2_NoLossNoDup ==
  /\ Distinct(popOrder)
  /\ \A n \in Nodes : reads[n] <= 1
  /\ Len(returned) <= Len(popOrder)
  /\ (AllIdle /\ next[head] = NULL)
       => \A v \in Values : ReturnedCount(v) = PushedCount(v)

C2_Witness ==
  /\ AllIdle /\ dropper = 0 /\ next[head] = NULL
  /\ Len(returned) = 3
  /\ \A t \in Threads : result[t] = None

\* C3: a pop that returned None saw, at some instant between its invocation
\* and its return, a head whose next was null.
C3_EmptyOnlyIfEmpty ==
  \A t \in Threads : result[t] = None => sawEmpty[t]

\* A pop returned None although elements had been pushed (and popped) before.
C3_Witness ==
  \E t \in Threads : /\ result[t] = None /\ pc[t] = "idle" /\ dropper = 0
                     /\ Len(popOrder) >= 1 /\ sawEmpty[t]

QLen == len
IsEmpty == QLen = 0

\* No push is in flight and no pop has unlinked a node it has yet to account
\* for: the states pops alone lead to from a quiescent queue.
OnlyPopsPending ==
  \A t \in Threads : pc[t] = "idle" \/ (InPop(t) /\ ~Unlinking(t))

\* C5: drain-to-empty is idempotent.  With everything popped and no call in
\* flight is_empty() is true; and from there on, while only pops run, no step
\* changes head, tail or len and every pop that returns returns None.
C5_DrainedIdempotent ==
  [][ /\ (AllIdle' /\ next'[head'] = NULL => len' = 0)
      /\ (next[head] = NULL /\ len = 0 /\ OnlyPopsPending)
           => /\ head' = head /\ tail' = tail /\ len' = len
              /\ \A t \in Threads : InPop(t) /\ ~InPop(t)' => result'[t] = None
    ]_vars

\* After elements were pushed and popped, every thread's further pop has
\* returned None and the queue is as it was.
C5_Witness ==
  /\ AllIdle /\ dropper = 0 /\ next[head] = NULL /\ IsEmpty
  /\ Len(popOrder) >= 2
  /\ \A t \in Threads : result[t] = None

\* C6: with no call in flight, len() is the number of nodes linked after the
\* sentinel, and is_empty() is true exactly when there is none.
C6_QuiescentLen ==
  AllIdle => /\ QLen = Len(Chain) - 1
             /\ IsEmpty <=> (Len(Chain) = 1)

C6_Witness ==
  /\ AllIdle /\ dropper = 0
  /\ Len(Chain) = 3 /\ QLen = 2 /\ Len(popOrder) = 1 /\ ~IsEmpty

\* C7: no push or pop dereferences a destroyed node: none has done so, and no
\* thread stands before a dereference (tail.next in push, head.next and the
\* new sentinel's payload in pop) of a node that is destroyed.
C7_NoUseAfterFree ==
  /\ ~derefFreed
  /\ \A t \in Threads :
       /\ pc[t] \in {"push_load_next", "push_link"} => nodeState[ltail[t]] # "destroyed"
       /\ pc[t] = "pop_load_next" => nodeState[lhead[t]] # "destroyed"
       /\ pc[t] = "pop_read" => nodeState[lnext[t]] # "destroyed"

\* A thread is about to read the next field of a node that was retired under
\* its pin, while another retired node has already been destroyed.
C7_Witness ==
  \E t \in Threads :
    /\ pc[t] \in {"push_load_next", "pop_load_next"}
    /\ LET n == IF pc[t] = "push_load_next" THEN ltail[t] ELSE lhead[t]
       IN nodeState[n] = "retired" /\ t \in waitFor[n]
    /\ \E m \in Nodes : nodeState[m] = "destroyed"

\* C10: after Drop every node allocated by new() or push was retired exactly
\* once and every pushed payload was read out exactly once (the first
\* sentinel holds none).
C10_DropRetiresAll ==
  dropped => /\ \A n \in Allocated : retires[n] = 1
             /\ \A n \in Allocated \ {1} : reads[n] = 1
             /\ reads[1] = 0
             /\ Len(Chain) = 1 /\ AllIdle

\* Drop began with two elements in the queue and has finished.
C10_Witness ==
  dropped /\ remaining = 2 /\ Cardinality(Allocated) = 4

Busy(t) == pc[t] # "idle"

\* The step of thread t abandons an iteration of its loop and starts the next.
RetryStep(t) ==
  /\ pc[t] \in {"push_check", "push_link", "push_help", "pop_check", "pop_help", "pop_cas"}
  /\ pc'[t] \in {"push_load_tail", "pop_load_head"}

\* What made thread t retry: a CAS of another thread that succeeded after the
\* iteration began, or (when t found tail lagging and helped) the link CAS of
\* another push that has not yet swung tail.
RetryCause(t) ==
  \/ dirty[t]
  \/ /\ pc[t] \in {"push_help", "pop_help"}
     /\ \E u \in Threads \ {t} : pc[u] = "push_swing" /\ newNode[u] = lnext[t]

\* C8: lock-freedom.  Every retry has a successful CAS of another thread for
\* its cause; and while thread 1 keeps taking steps, with the other threads
\* free to stop anywhere for ever, a call in flight is followed by the return
\* of some call.
C8_LockFree ==
  /\ [][\A t \in Threads : RetryStep(t) => RetryCause(t)]_vars
  /\ \A b \in {0, 1} : (Busy(1) /\ parity = b) ~> (parity # b)

\* Thread 2 has linked its node and stopped before swinging tail; thread 1 has
\* helped tail forward and linked its own node behind it.
C8_Witness ==
  /\ pc[2] = "push_swing" /\ pc[1] = "push_inc"
  /\ next[newNode[2]] = newNode[1] /\ tail = newNode[1]

\* C9 as stated: under fair scheduling every push and every pop returns.
C9_EveryCallReturns ==
  \A t \in Threads : Busy(t) ~> ~Busy(t)

\* C9 amended: under fair scheduling a call in flight returns, or else a CAS
\* of another thread succeeds after its current iteration began.
C9_ReturnsUnlessOvertaken ==
  \A t \in Threads : Busy(t) ~> (~Busy(t) \/ dirty[t])

\* A pop whose iteration was overtaken by another thread's CAS retries.
C9_Witness ==
  \E t \in Threads : pc[t] = "pop_load_head" /\ dirty[t] /\ parity = 1

\* C11: new() yields an empty queue.  Until the first push is invoked there is
\* one node, the sentinel, with next null and no payload; head and tail are
\* both on it, len is 0, is_empty() is true, and every pop that has returned
\* has returned None.
C11_NewIsEmpty ==
  Allocated = {1} =>
    /\ head = 1 /\ tail = 1
    /\ next[1] = NULL /\ elem[1] = UNINIT
    /\ Chain = <<1>>
    /\ QLen = 0 /\ IsEmpty
    /\ returned = <<>>
    /\ \A t \in Threads : result[t] \in {None, NoResult}

\* Both threads have popped the new queue and got None; nothing was pushed.
C11_Witness ==
  /\ Allocated = {1} /\ AllIdle /\ dropper = 0
  /\ \A t \in Threads : result[t] = None

\* The nodes head has referred to, in order, and those it was moved off.
Heads == <<1>> \o popOrder
Unlinked == {Heads[i] : i \in 1..(Len(Heads) - 1)}

\* C12: head precedes or equals tail.  tail's node is reached from head by
\* next pointers; head is the last node it was swung onto; neither head nor
\* tail refers to a node head was moved off; and while the queue exists neither
\* refers to a node handed to defer_destroy.
C12_HeadPrecedesTail ==
  /\ tail \in Range(Chain)
  /\ head = Heads[Len(Heads)]
  /\ head \notin Unlinked /\ tail \notin Unlinked
  /\ ~dropped => nodeState[head] = "live" /\ nodeState[tail] = "live"

\* A pop has unlinked and retired a node, and has swung head onto the node
\* tail refers to, while a further node is linked behind the lagging tail.
C12_Witness ==
  /\ Len(popOrder) >= 1 /\ head = tail /\ next[tail] # NULL
  /\ \E n \in Unlinked : nodeState[n] = "retired"
  /\ \E t \in Threads : pc[t] = "pop_help"

\* C13: the chain is a list.  Following next from head visits distinct
\* allocated nodes, fewer than there are node numbers plus one (no cycle), and
\* the walk ends at the one node of the chain whose next is null.
C13_ChainIsList ==
  /\ Distinct(Chain)
  /\ Len(Chain) >= 1 /\ Len(Chain) <= MaxNodes
  /\ Range(Chain) \subseteq Allocated
  /\ next[Chain[Len(Chain)]] = NULL
  /\ Cardinality({n \in Range(Chain) : next[n] = NULL}) = 1

\* Three nodes were linked and one of them unlinked: two are behind the
\* sentinel, the last linked by a push that has yet to swing tail.
C13_Witness ==
  /\ Len(Chain) = 3 /\ Len(popOrder) = 1 /\ Len(linkOrder) = 3
  /\ \E t \in Threads : pc[t] = "push_swing"

\* Every node behind head holds the payload it was pushed with, unread.
TailPayloadsValid ==
  \A i \in 2..Len(Chain) : elem[Chain[i]] \in Values /\ reads[Chain[i]] = 0

\* The pops that have swung head onto n and have yet to read its payload.
PendingReaders(n) == {t \in Threads : pc[t] \in {"pop_retire", "pop_read"} /\ lnext[t] = n}

\* C14 as stated: head's node never held a payload or its payload has been
\* read out, and every node behind it holds an unread payload.
C14_OneSentinel ==
  /\ (head = 1 /\ elem[head] = UNINIT /\ reads[head] = 0) \/ reads[head] = 1
  /\ TailPayloadsValid

\* C14 amended: head's node never held a payload, or its payload has been read
\* out, or the one pop that swung head onto it is about to read it out before
\* it returns; and every node behind head holds an unread payload.
C14_OneSentinelOrPendingRead ==
  /\ \/ head = 1 /\ elem[head] = UNINIT /\ reads[head] = 0
     \/ head # 1 /\ reads[head] = 1 /\ PendingReaders(head) = {}
     \/ head # 1 /\ reads[head] = 0 /\ Cardinality(PendingReaders(head)) = 1
  /\ TailPayloadsValid

\* A pop has swung head onto a node and has not read its payload yet, and a
\* further node is linked behind it.
C14_Witness ==
  /\ Len(Chain) >= 2 /\ reads[head] = 0 /\ elem[head] \in Values
  /\ \E t \in Threads : pc[t] = "pop_read" /\ lnext[t] = head

\* The step of thread t is the successful CAS of its pop on head.
WinsHeadCas(t) ==
  /\ pc[t] = "pop_cas" /\ pc'[t] = "pop_retire"
  /\ head = lhead[t] /\ head' = lnext[t] /\ head' # head

\* C15: a payload is read only by the pop that swung head onto its node, after
\* that CAS, once.  A pop stands behind its CAS only by having won it, with
\* head_next the node it swung head onto; a payload is read only by the step of
\* such a pop, from the node it swung head onto, unread until then and by no
\* other pop; a pop that loses its CAS starts over and one that returns None
\* returns from its check of head.next, neither having read a payload.
C15_ReadAfterOwnCas ==
  /\ [](\A t \in Threads :
          /\ pc[t] \in {"pop_retire", "pop_read"}
               => /\ lnext[t] \in Range(popOrder) /\ reads[lnext[t]] = 0
                  /\ \A u \in Threads \ {t} : Unlinking(u) => lnext[u] # lnext[t]
          /\ pc[t] = "pop_dec" => reads[lnext[t]] = 1)
  /\ [][\A t \in Threads :
          /\ (pc'[t] = "pop_retire" /\ pc[t] # "pop_retire") => WinsHeadCas(t)
          /\ (pc'[t] = "pop_read" /\ pc[t] # "pop_read")
               => pc[t] = "pop_retire" /\ lnext'[t] = lnext[t]
          /\ (pc[t] = "pop_cas" /\ ~WinsHeadCas(t) /\ pc'[t] # pc[t])
               => pc'[t] = "pop_load_head" /\ reads' = reads
          /\ (InPop(t) /\ ~Unlinking(t) /\ ~InPop(t)')
               => pc[t] = "pop_check" /\ result'[t] = None /\ reads' = reads
          /\ (pc[t] = "pop_dec" /\ pc'[t] # pc[t]) => result'[t] = Some(lelem[t])
      ]_vars
  /\ [][\A n \in Nodes : reads'[n] # reads[n] /\ nodeState[n] # "unalloc"
          => /\ reads[n] = 0 /\ reads'[n] = 1
             /\ \E t \in Threads : pc[t] = "pop_read" /\ pc'[t] = "pop_dec" /\ lnext[t] = n
      ]_vars

\* Two pops loaded the same head and head.next: one has won the CAS and read
\* the payload, the other is about to lose its CAS.
C15_Witness ==
  \E t, u \in Threads :
    /\ t # u /\ pc[t] = "pop_dec" /\ pc[u] = "pop_cas"
    /\ lhead[u] = lhead[t] /\ lnext[u] = lnext[t]
    /\ reads[lnext[t]] = 1

\* The pops that have moved head off n and have yet to retire it.
PendingRetirers(n) == {t \in Threads : pc[t] = "pop_retire" /\ lhead[t] = n}

\* C16: while the queue is in use (Drop's own defer_destroy of the last
\* sentinel apart), a node is retired at most once, only after head was moved
\* off it, by the pop whose CAS moved head off it and before that pop goes on
\* to read and return; and a retired node is not head's, not tail's and not
\* reachable from head.
C16_RetiredByUnlinker ==
  /\ [](/\ \A n \in Nodes : retires[n] <= 1
        /\ ~dropped => \A n \in Nodes :
              (retires[n] = 1 \/ nodeState[n] \in {"retired", "destroyed"})
                => n \in Unlinked /\ n # head /\ n # tail /\ n \notin Range(Chain)
        /\ \A n \in Unlinked :
              \/ retires[n] = 1 /\ PendingRetirers(n) = {}
              \/ retires[n] = 0 /\ Cardinality(PendingRetirers(n)) = 1
        /\ \A t \in Threads : pc[t] = "pop_retire" => lhead[t] \in Unlinked)
  /\ [][\A t \in Threads :
          /\ (pc'[t] = "pop_retire" /\ pc[t] # "pop_retire")
               => WinsHeadCas(t) /\ lhead'[t] = head
          /\ (pc[t] = "pop_retire" /\ pc'[t] # pc[t])
               => /\ pc'[t] = "pop_read" /\ retires'[lhead[t]] = retires[lhead[t]] + 1
                  /\ nodeState'[lhead[t]] = "retired"
      ]_vars
  /\ [][\A n \in Nodes : retires'[n] # retires[n] /\ nodeState[n] # "unalloc"
          => \/ \E t \in Threads : pc[t] = "pop_retire" /\ lhead[t] = n
             \/ \E t \in Threads : pc[t] = "drop_retire" /\ dropper = t
      ]_vars

\* Two pops have each moved head off a node: one has retired its node, the
\* other has yet to.
C16_Witness ==
  \E t, u \in Threads :
    /\ pc[t] = "pop_read" /\ retires[lhead[t]] = 1 /\ nodeState[lhead[t]] = "retired"
    /\ pc[u] = "pop_retire" /\ retires[lhead[u]] = 0
    /\ dropper = 0

\* C17: len never underflows.  No fetch_sub of a pop is applied to a counter
\* that is 0, so the counter never holds a wrapped value (a negative
\* representative) and len() never reports one.
C17_NoUnderflow == QLen >= 0

NoPushInFlight == \A t \in Threads : ~InPush(t)

\* C18: while no push is in flight (pops may be), len is at least the number
\* of nodes linked behind head, so is_empty() being true means that no
\* element is left in the queue.
C18_LenCoversElements ==
  NoPushInFlight => /\ QLen >= Len(Chain) - 1
                    /\ IsEmpty => Len(Chain) = 1

\* No push is in flight; a pop has unlinked an element and not yet
\* decremented len, which so exceeds the one element still linked.
C18_Witness ==
  /\ NoPushInFlight /\ dropper = 0
  /\ \E t \in Threads : pc[t] = "pop_dec"
  /\ Len(Chain) = 2 /\ QLen = 2

\* The true last node: the node of the chain whose next is null.
LastNode == Chain[Len(Chain)]

\* The step of thread t is the successful link CAS of its push.
LinksNode(t) == pc[t] = "push_link" /\ pc'[t] = "push_swing" /\ next' # next

\* C19: tail lags the true last node by at most one node.  tail's node has
\* next null or its successor has; and a link CAS that succeeds is applied to
\* the true last node, with tail on that node, leaving tail one node behind.
C19_TailLagsByOne ==
  /\ [](/\ next[tail] = NULL \/ next[next[tail]] = NULL
        /\ tail = LastNode \/ next[tail] = LastNode)
  /\ [][\A t \in Threads : LinksNode(t)
          => /\ ltail[t] = LastNode /\ tail = LastNode
             /\ next'[tail'] = newNode[t] /\ next'[newNode[t]] = NULL
      ]_vars

\* A push has linked its node behind tail and has yet to swing tail, while
\* the other thread, having found tail lagging, is about to help it forward.
C19_Witness ==
  \E t, u \in Threads :
    /\ pc[t] = "push_swing" /\ next[tail] = newNode[t] /\ tail # LastNode
    /\ pc[u] \in {"push_help", "pop_help"} /\ ltail[u] = tail /\ lnext[u] = newNode[t]
    /\ Len(popOrder) >= 1

\* How often node n was linked.
LinkCount(n) == Cardinality({i \in 1..Len(linkOrder) : linkOrder[i] = n})

\* C20: next is written at most once.  A node's next changes only from null,
\* by the successful link CAS of a push on that node, to that push's new node,
\* which was never linked before; a push has linked its node exactly once when
\* it stands behind its link CAS or has returned, and not at all before; a
\* push goes to the link CAS only from an iteration that read tail.next as
\* null, and an iteration that read it as not null changes no next and leaves
\* tail alone or moves it to the node it read.
C20_NextWrittenOnce ==
  /\ [](\A t \in Threads :
          /\ pc[t] \in {"push_load_tail", "push_load_next", "push_check", "push_link", "push_help"}
               => LinkCount(newNode[t]) = 0 /\ next[newNode[t]] = NULL
          /\ pc[t] \in {"push_swing", "push_inc"} => LinkCount(newNode[t]) = 1)
  /\ [](\A n \in pushDone : LinkCount(n) = 1)
  /\ [][\A n \in Nodes : next'[n] # next[n]
          => /\ next[n] = NULL
             /\ \E t \in Threads : /\ LinksNode(t) /\ ltail[t] = n
                                    /\ next'[n] = newNode[t]
                                    /\ LinkCount(newNode[t]) = 0
      ]_vars
  /\ [][\A t \in Threads :
          /\ (pc'[t] = "push_link" /\ pc[t] # "push_link")
               => pc[t] = "push_check" /\ lnext[t] = NULL
          /\ (pc[t] = "push_check" /\ pc'[t] # pc[t] /\ lnext[t] # NULL)
               => pc'[t] \in {"push_help", "push_load_tail"}
          /\ (pc[t] = "push_help" /\ pc'[t] # pc[t])
               => /\ next' = next /\ pc'[t] = "push_load_tail"
                  /\ tail' = tail \/ (tail = ltail[t] /\ tail' = lnext[t])
      ]_vars

\* Two pushes read the same tail with next null: one has linked its node, the
\* other stands before a link CAS that will fail, after an earlier push.
C20_Witness ==
  \E t, u \in Threads :
    /\ pc[t] = "push_swing" /\ pc[u] = "push_link"
    /\ ltail[u] = ltail[t] /\ next[ltail[u]] = newNode[t]
    /\ Len(linkOrder) = 2

====
